---- MODULE Spec2Model ----
(***************************************************************************)
(* Model of instageo/model/run.py:                                         *)
(*   - PrithviSegmentationModule.compute_metrics / log_metrics             *)
(*     (specification Spec), and                                           *)
(*   - the sliding_inference branch of main (specification SpecInfer).     *)
(* Masks are flattened row-major: [[0,0],[1,1]] is <<0,0,1,1>>.            *)
(* Real numbers are exact fractions <<n, d>>; <<0,0>> is NaN (numpy 0/0)   *)
(* and <<1,0>> is inf (numpy x/0, x > 0).                                  *)
(***************************************************************************)
EXTENDS Integers, Sequences, FiniteSets, TLC

\* ---------------------------------------------------------------- bounds
\* Largest number of pixels of one mask pair.
MaxPixels == 4
\* Largest number of entries of the input JSON of sliding_inference.
MaxTiles == 2
\* Pixels (height x width, flattened) of one tile.
TilePixels == 2

\* ------------------------------------------------------ program constants
\* __init__ defaults.
num_classes == 2
ignore_index == -100
\* cfg.dataloader.no_data_value, cfg.dataloader.mean (one value for all
\* channels; std is 1) and the number of channels of a tile.
no_data_value == 0
mean == 1
Channels == 2

\* ------------------------------------------------------------ arithmetic
RECURSIVE Gcd(_, _)
Gcd(a, b) == IF b = 0 THEN a ELSE Gcd(b, a % b)

NaN == <<0, 0>>
Inf == <<1, 0>>
\* The Python literal 0 of the "else 0" branches, and the float 0.0.
Zero == <<0, 1>>
One == <<1, 1>>

\* Exact value n/d, d > 0, in lowest terms.
Frac(n, d) == LET g == Gcd(n, d) IN <<n \div g, d \div g>>

\* numpy true division of two non-negative integer scalars: 0/0 is nan and
\* x/0 is inf (a RuntimeWarning, not an exception).
NpDiv(a, b) == IF b = 0 THEN (IF a = 0 THEN NaN ELSE Inf) ELSE Frac(a, b)

FracAdd(x, y) == Frac(x[1] * y[2] + y[1] * x[2], x[2] * y[2])

RECURSIVE FracSum(_)
FracSum(s) == IF s = <<>> THEN Zero ELSE FracAdd(s[1], FracSum(Tail(s)))

\* np.mean of a non-empty list of finite values.
NpMean(s) == LET t == FracSum(s) IN Frac(t[1], t[2] * Len(s))

\* np.sum of a boolean array: the number of True entries.
NpSum(b) == Cardinality({i \in DOMAIN b : b[i]})

\* np.any of a boolean array.
NpAny(b) == \E i \in DOMAIN b : b[i]

\* ------------------------------------------------------------ tensor ops
\* torch.argmax over the class dimension of one pixel's scores: the index
\* (0-based) of the first maximal value.
ArgMax(scores) ==
    (CHOOSE c \in DOMAIN scores :
        /\ \A d \in DOMAIN scores : scores[d] <= scores[c]
        /\ \A d \in DOMAIN scores : d < c => scores[d] < scores[c]) - 1

ArgMaxMask(lg) == [i \in DOMAIN lg |-> ArgMax(lg[i])]

\* Variant: a mask that keeps every pixel.
NoIgnoreAll(gt) == [i \in DOMAIN gt |-> TRUE]
\* gt_mask.ne(self.ignore_index)
NoIgnore(gt) == [i \in DOMAIN gt |-> gt[i] # ignore_index]

\* tensor.masked_select(mask): the selected entries, in order, as a 1-D array.
RECURSIVE MaskedSelect(_, _)
MaskedSelect(t, m) ==
    IF t = <<>> THEN <<>>
    ELSE (IF m[1] THEN <<t[1]>> ELSE <<>>) \o MaskedSelect(Tail(t), Tail(m))

SetMin(S) == CHOOSE x \in S : \A y \in S : x <= y

RECURSIVE SortedSeq(_)
SortedSeq(S) ==
    IF S = {} THEN <<>> ELSE <<SetMin(S)>> \o SortedSeq(S \ {SetMin(S)})

Range(s) == {s[i] : i \in DOMAIN s}

\* np.unique: the sorted distinct values.
NpUnique(a) == SortedSeq(Range(a))

\* Variant: the classes of the ground truth alone.
ClassesGtOnly(gt, pred) == NpUnique(gt)
\* np.unique(np.concatenate((gt_mask, pred_mask)))
Classes(gt, pred) == NpUnique(gt \o pred)

\* ------------------------------------------------- one class of the loop
PredCls(pred, clas) == [i \in DOMAIN pred |-> pred[i] = clas]
GtCls(gt, clas) == [i \in DOMAIN gt |-> gt[i] = clas]
Intersection(pred, gt, clas) ==
    [i \in DOMAIN pred |-> PredCls(pred, clas)[i] /\ GtCls(gt, clas)[i]]
Union(pred, gt, clas) ==
    [i \in DOMAIN pred |-> PredCls(pred, clas)[i] \/ GtCls(gt, clas)[i]]

TruePositive(pred, gt, clas) == NpSum(Intersection(pred, gt, clas))
\* Variant: false positives counted from gt_cls.
FalsePositiveSwapped(pred, gt, clas) ==
    NpSum(GtCls(gt, clas)) - TruePositive(pred, gt, clas)
FalsePositive(pred, gt, clas) ==
    NpSum(PredCls(pred, clas)) - TruePositive(pred, gt, clas)
FalseNegative(pred, gt, clas) ==
    NpSum(GtCls(gt, clas)) - TruePositive(pred, gt, clas)

\* Variant: an IoU only for classes with a ground-truth pixel.
IouGuardGt(pred, gt, clas) == NpAny(GtCls(gt, clas))
\* "if np.any(union)": whether this class appends an IoU.
IouGuard(pred, gt, clas) == NpAny(Union(pred, gt, clas))

Iou(pred, gt, clas) ==
    NpDiv(NpSum(Intersection(pred, gt, clas)), NpSum(Union(pred, gt, clas)))

\* Variant: accuracy without the "if np.sum(gt_cls) > 0" guard.
AccuracyEvalUnguarded(pred, gt, clas) ==
    [value |-> NpDiv(TruePositive(pred, gt, clas), NpSum(GtCls(gt, clas))),
     dens |-> {NpSum(GtCls(gt, clas))}]
\* accuracy, precision and recall of one class: the value appended and the
\* denominators its division was evaluated with (none on the "else 0" branch).
AccuracyEval(pred, gt, clas) ==
    IF NpSum(GtCls(gt, clas)) > 0
    THEN [value |-> NpDiv(TruePositive(pred, gt, clas), NpSum(GtCls(gt, clas))),
          dens |-> {NpSum(GtCls(gt, clas))}]
    ELSE [value |-> Zero, dens |-> {}]

PrecisionEval(pred, gt, clas) ==
    LET tp == TruePositive(pred, gt, clas)
        fp == FalsePositive(pred, gt, clas)
    IN IF tp + fp > 0
       THEN [value |-> NpDiv(tp, tp + fp), dens |-> {tp + fp}]
       ELSE [value |-> Zero, dens |-> {}]

RecallEval(pred, gt, clas) ==
    LET tp == TruePositive(pred, gt, clas)
        fn == FalseNegative(pred, gt, clas)
    IN IF tp + fn > 0
       THEN [value |-> NpDiv(tp, tp + fn), dens |-> {tp + fn}]
       ELSE [value |-> Zero, dens |-> {}]

Accuracy(pred, gt, clas) == AccuracyEval(pred, gt, clas).value
Precision(pred, gt, clas) == PrecisionEval(pred, gt, clas).value
Recall(pred, gt, clas) == RecallEval(pred, gt, clas).value

\* The denominators the divisions of one loop iteration are evaluated with.
Denominators(pred, gt, clas) ==
    (IF IouGuard(pred, gt, clas) THEN {NpSum(Union(pred, gt, clas))} ELSE {})
    \cup AccuracyEval(pred, gt, clas).dens
    \cup PrecisionEval(pred, gt, clas).dens
    \cup RecallEval(pred, gt, clas).dens

\* ------------------------------------------------------------ after loop
\* Variant: np.sum in place of np.mean.
MeanIouSum(ious) == IF ious # <<>> THEN FracSum(ious) ELSE Zero
MeanIou(ious) == IF ious # <<>> THEN NpMean(ious) ELSE Zero

\* np.sum(pred_mask == gt_mask)
Correct(pred, gt) == NpSum([i \in DOMAIN pred |-> pred[i] = gt[i]])

\* Variant: the mean of the per-class accuracies.
OverallAccuracyPerClass(pred, gt) ==
    LET cl == Classes(gt, pred)
    IN IF cl = <<>> THEN NaN
       ELSE NpMean([j \in DOMAIN cl |-> Accuracy(pred, gt, cl[j])])
OverallAccuracy(pred, gt) == NpDiv(Correct(pred, gt), Len(gt))

\* ---------------------------------------------------------------- state
VARIABLES
    logits,               \* compute_metrics argument pred_mask (class scores)
    labels,               \* compute_metrics argument gt_mask
    pc,                   \* position in compute_metrics / log_metrics
    pred_mask, gt_mask,   \* the masked, flattened arrays
    classes,              \* np.unique(...)
    done_classes,         \* number of loop iterations completed
    true_positive, false_positive, false_negative,  \* per iteration
    denominators,         \* denominators used by the per-class divisions
    iou_per_class, accuracy_per_class, precision_per_class, recall_per_class,
    mean_iou, overall_accuracy,
    logged                \* the scalars log_metrics handed to self.log

metricVars ==
    <<logits, labels, pc, pred_mask, gt_mask, classes, done_classes,
      true_positive, false_positive, false_negative, denominators,
      iou_per_class, accuracy_per_class, precision_per_class,
      recall_per_class, mean_iou, overall_accuracy, logged>>

\* sliding_inference branch of main.
VARIABLES
    hls_dataset,   \* the keys of the input JSON, in file order
    idx,           \* number of items of hls_dataset.items() consumed
    ipc,           \* position in the body of the tile loop
    hls_tile,      \* the local hls_tile: channels x pixels
    raw_tile,      \* history: hls_tile as process_data returned it
    nan_mask,      \* the local nan_mask: one 0/1 entry per pixel
    prediction,    \* the local prediction: one value per pixel
    returned,      \* history: what sliding_window_inference returned
    written,       \* names of the prediction files opened for writing, in order
    dst_data,      \* the array handed to the latest dst.write
    raised,        \* history: keys whose sliding_window_inference call raised
    events,        \* history: <<what, key>> per read, skip, infer and write
    status         \* "running", "finished" or "aborted" (uncaught exception)

inferVars ==
    <<hls_dataset, idx, ipc, hls_tile, raw_tile, nan_mask, prediction,
      returned, written, dst_data, raised, events, status>>

vars == <<metricVars, inferVars>>

\* One pixel's class scores; <<1,1>> is a tie.
PixelScores == {<<1, 0>>, <<0, 1>>, <<1, 1>>}
LabelValues == (0 .. num_classes - 1) \cup {ignore_index}

SeqsUpTo(S, n) == UNION {[1 .. m -> S] : m \in 0 .. n}

Unset == <<>>

\* The sliding_inference branch is not running.
InferIdle ==
    /\ hls_dataset = <<>> /\ idx = 0 /\ ipc = "idle"
    /\ hls_tile = Unset /\ raw_tile = Unset /\ nan_mask = Unset
    /\ prediction = Unset /\ returned = Unset
    /\ written = <<>> /\ dst_data = Unset /\ raised = {} /\ events = <<>>
    /\ status = "idle"

MetricLocalsInit ==
    /\ pred_mask = Unset /\ gt_mask = Unset /\ classes = Unset
    /\ done_classes = 0
    /\ true_positive = <<>> /\ false_positive = <<>> /\ false_negative = <<>>
    /\ denominators = {}
    /\ iou_per_class = <<>> /\ accuracy_per_class = <<>>
    /\ precision_per_class = <<>> /\ recall_per_class = <<>>
    /\ mean_iou = Unset /\ overall_accuracy = Unset
    /\ logged = {}

Init ==
    /\ logits \in SeqsUpTo(PixelScores, MaxPixels)
    /\ labels \in [DOMAIN logits -> LabelValues]
    /\ pc = "select"
    /\ MetricLocalsInit
    /\ InferIdle

\* Lines 236-240: argmax, drop the ignored pixels, find the classes.
Select ==
    /\ pc = "select"
    /\ pred_mask' = MaskedSelect(ArgMaxMask(logits), NoIgnore(labels))
    /\ gt_mask' = MaskedSelect(labels, NoIgnore(labels))
    /\ classes' = Classes(gt_mask', pred_mask')
    /\ pc' = "loop"
    /\ UNCHANGED <<logits, labels, done_classes, true_positive, false_positive,
                   false_negative, denominators, iou_per_class,
                   accuracy_per_class, precision_per_class, recall_per_class,
                   mean_iou, overall_accuracy, logged>>
    /\ UNCHANGED inferVars

\* Lines 247-276: one iteration of "for clas in classes".
ClassIteration ==
    /\ pc = "loop"
    /\ done_classes < Len(classes)
    /\ LET clas == classes[done_classes + 1] IN
        /\ true_positive' =
              Append(true_positive, TruePositive(pred_mask, gt_mask, clas))
        /\ false_positive' =
              Append(false_positive, FalsePositive(pred_mask, gt_mask, clas))
        /\ false_negative' =
              Append(false_negative, FalseNegative(pred_mask, gt_mask, clas))
        /\ iou_per_class' =
              IF IouGuard(pred_mask, gt_mask, clas)
              THEN Append(iou_per_class, Iou(pred_mask, gt_mask, clas))
              ELSE iou_per_class
        /\ accuracy_per_class' =
              Append(accuracy_per_class, Accuracy(pred_mask, gt_mask, clas))
        /\ precision_per_class' =
              Append(precision_per_class, Precision(pred_mask, gt_mask, clas))
        /\ recall_per_class' =
              Append(recall_per_class, Recall(pred_mask, gt_mask, clas))
        /\ denominators' =
              denominators \cup Denominators(pred_mask, gt_mask, clas)
    /\ done_classes' = done_classes + 1
    /\ UNCHANGED <<logits, labels, pc, pred_mask, gt_mask, classes, mean_iou,
                   overall_accuracy, logged>>
    /\ UNCHANGED inferVars

\* Lines 278-288: mean IoU, overall accuracy, return.
Finish ==
    /\ pc = "loop"
    /\ done_classes = Len(classes)
    /\ mean_iou' = MeanIou(iou_per_class)
    /\ overall_accuracy' = OverallAccuracy(pred_mask, gt_mask)
    /\ pc' = "returned"
    /\ UNCHANGED <<logits, labels, pred_mask, gt_mask, classes, done_classes,
                   true_positive, false_positive, false_negative, denominators,
                   iou_per_class, accuracy_per_class, precision_per_class,
                   recall_per_class, logged>>
    /\ UNCHANGED inferVars

\* enumerate(values): the (idx, value) pairs, idx from 0.
Enumerate(name, values) ==
    {[name |-> name, idx |-> i - 1, value |-> values[i]] : i \in DOMAIN values}

\* Lines 171-231: log_metrics forwards the returned scalars.
LogMetrics ==
    /\ pc = "returned"
    /\ logged' =
          {[name |-> "aAcc", idx |-> -1, value |-> overall_accuracy],
           [name |-> "mIoU", idx |-> -1, value |-> mean_iou]}
          \cup Enumerate("IoU", iou_per_class)
          \cup Enumerate("Acc", accuracy_per_class)
          \cup Enumerate("Precision", precision_per_class)
          \cup Enumerate("Recall", recall_per_class)
    /\ pc' = "logged"
    /\ UNCHANGED <<logits, labels, pred_mask, gt_mask, classes, done_classes,
                   true_positive, false_positive, false_negative, denominators,
                   iou_per_class, accuracy_per_class, precision_per_class,
                   recall_per_class, mean_iou, overall_accuracy>>
    /\ UNCHANGED inferVars

Next == Select \/ ClassIteration \/ Finish \/ LogMetrics

Spec == Init /\ [][Next]_vars

\* ------------------------------------------- reference definitions
\* What the claims speak of, counted directly on the arguments of the call.
Returned == pc \in {"returned", "logged"}
Pred == ArgMaxMask(logits)
Kept == {i \in DOMAIN labels : labels[i] # ignore_index}
Universe == {Pred[i] : i \in Kept} \cup {labels[i] : i \in Kept}
TPCount(c) == Cardinality({i \in Kept : Pred[i] = c /\ labels[i] = c})
FPCount(c) == Cardinality({i \in Kept : Pred[i] = c /\ labels[i] # c})
FNCount(c) == Cardinality({i \in Kept : labels[i] = c /\ Pred[i] # c})
GtCount(c) == Cardinality({i \in Kept : labels[i] = c})
CorrectCount == Cardinality({i \in Kept : Pred[i] = labels[i]})
\* a/b as a number; not a number when b = 0.
Ratio(a, b) == IF b = 0 THEN NaN ELSE Frac(a, b)
IouOf(c) == Ratio(TPCount(c), TPCount(c) + FPCount(c) + FNCount(c))
IsNumber(x) == x # Unset /\ x[2] # 0
MeanOf(vals) == IF vals = <<>> THEN Zero ELSE NpMean(vals)
RemoveAt(s, i) ==
    [j \in 1 .. Len(s) - 1 |-> IF j < i THEN s[j] ELSE s[j + 1]]

\* The statistics of one call on arguments (lg, gt), by the code's operators.
StatsOf(lg, gt) ==
    LET p == MaskedSelect(ArgMaxMask(lg), NoIgnore(gt))
        g == MaskedSelect(gt, NoIgnore(gt))
        cl == Classes(g, p)
    IN [classes |-> cl,
        tp |-> [j \in DOMAIN cl |-> TruePositive(p, g, cl[j])],
        fp |-> [j \in DOMAIN cl |-> FalsePositive(p, g, cl[j])],
        fn |-> [j \in DOMAIN cl |-> FalseNegative(p, g, cl[j])],
        correct |-> Correct(p, g),
        size |-> Len(g)]

\* The same statistics as the finished call holds them.
StateStats ==
    [classes |-> classes, tp |-> true_positive, fp |-> false_positive,
     fn |-> false_negative, correct |-> Correct(pred_mask, gt_mask),
     size |-> Len(gt_mask)]

\* ------------------------------------------------------------------ C1
\* C1: a pixel whose ground truth is ignore_index contributes to no
\* statistic: the finished call's per-class TP/FP/FN counts, class universe
\* and overall-accuracy numerator and denominator are those of the call with
\* that pixel removed from both masks, and of the call with that pixel's
\* prediction changed to any other scores.
C1_IgnoredPixelContributesNothing ==
    Returned =>
        \A i \in DOMAIN labels :
            labels[i] = ignore_index =>
                /\ StateStats = StatsOf(RemoveAt(logits, i), RemoveAt(labels, i))
                /\ \A sc \in PixelScores :
                      StateStats = StatsOf([logits EXCEPT ![i] = sc], labels)

\* An ignored pixel predicted as class 1 while every evaluated pixel is class 0.
C1_Witness ==
    /\ Returned
    /\ classes = <<0>>
    /\ \E i \in DOMAIN labels : labels[i] = ignore_index /\ Pred[i] = 1

\* ------------------------------------------------------------------ C2
\* C2 (as claimed): the mean IoU is the arithmetic mean of the IoUs of the
\* classes that have at least one ground-truth pixel; a class that appears
\* only in the prediction is left out of the average.
C2_MeanIouExcludesZeroGtClasses ==
    Returned =>
        mean_iou =
            MeanOf(LET withGt == SortedSeq({c \in Universe : GtCount(c) > 0})
                   IN [j \in DOMAIN withGt |-> IouOf(withGt[j])])

\* C2 (amended): every class of the universe appends an IoU, a class with
\* no ground-truth pixel appends IoU 0, and the mean IoU is the arithmetic
\* mean over all classes of the universe (0 when the universe is empty).
C2_MeanIouCountsZeroGtClassAsZero ==
    Returned =>
        /\ Len(iou_per_class) = Cardinality(Universe)
        /\ \A j \in DOMAIN classes :
              GtCount(classes[j]) = 0 => iou_per_class[j] = Zero
        /\ mean_iou =
              MeanOf(LET all == SortedSeq(Universe)
                     IN [j \in DOMAIN all |-> IouOf(all[j])])

\* A class with no ground-truth pixel lowers the mean: gt 0,0 / pred 0,1.
C2_Witness ==
    /\ Returned
    /\ \E c \in Universe : GtCount(c) = 0
    /\ \E c \in Universe : GtCount(c) > 0 /\ IouOf(c) # Zero
    /\ mean_iou # MeanOf(LET withGt == SortedSeq({c \in Universe : GtCount(c) > 0})
                         IN [j \in DOMAIN withGt |-> IouOf(withGt[j])])

\* ------------------------------------------------------------------ C3
\* C3: when every ground-truth pixel is ignore_index (or the masks are
\* empty) the call returns an empty class universe, four zero-length
\* per-class vectors, mean IoU 0 and an overall accuracy that is a number.
C3_AllIgnoredGivesDefinedReport ==
    (Returned /\ Kept = {}) =>
        /\ classes = <<>>
        /\ iou_per_class = <<>> /\ accuracy_per_class = <<>>
        /\ precision_per_class = <<>> /\ recall_per_class = <<>>
        /\ mean_iou = Zero
        /\ IsNumber(overall_accuracy)

\* ------------------------------------------------------------------ C4
\* C4: for every class c of the loop, TP = non-ignored pixels with
\* prediction = ground truth = c, FP = non-ignored pixels predicted c whose
\* ground truth is not c, FN = non-ignored pixels of ground truth c
\* predicted otherwise, IoU(c) = TP/(TP+FP+FN); and gt=[[0,0],[1,1]],
\* pred=[[0,1],[1,1]] gives TP=1,FP=0,FN=1 / TP=2,FP=1,FN=0, IoU 1/2, 2/3.
C4_ConfusionCountsAndIou ==
    /\ \A j \in 1 .. done_classes :
          /\ true_positive[j] = TPCount(classes[j])
          /\ false_positive[j] = FPCount(classes[j])
          /\ false_negative[j] = FNCount(classes[j])
          /\ iou_per_class[j] =
                Ratio(true_positive[j],
                      true_positive[j] + false_positive[j] + false_negative[j])
    /\ (Returned /\ labels = <<0, 0, 1, 1>> /\ Pred = <<0, 1, 1, 1>>) =>
          /\ classes = <<0, 1>>
          /\ true_positive = <<1, 2>>
          /\ false_positive = <<0, 1>>
          /\ false_negative = <<1, 0>>
          /\ iou_per_class = << <<1, 2>>, <<2, 3>> >>

C4_Witness ==
    /\ Returned /\ labels = <<0, 0, 1, 1>> /\ Pred = <<0, 1, 1, 1>>
    /\ done_classes = 2

\* ------------------------------------------------------------------ C5
AccOf(c) == IF GtCount(c) = 0 THEN Zero ELSE Ratio(TPCount(c), GtCount(c))
PrecisionOf(c) ==
    IF TPCount(c) + FPCount(c) = 0 THEN Zero
    ELSE Ratio(TPCount(c), TPCount(c) + FPCount(c))
RecallOf(c) ==
    IF TPCount(c) + FNCount(c) = 0 THEN Zero
    ELSE Ratio(TPCount(c), TPCount(c) + FNCount(c))
LoggedAs(name, i) == {r \in logged : r.name = name /\ r.idx = i}

\* C5: the classes indexing the per-class vectors are exactly the union of
\* the values of prediction and ground truth on the non-ignored pixels, in
\* ascending order; each of the four vectors has one entry per class, and
\* the scalars logged as IoU_i, Acc_i, Precision_i, Recall_i are the
\* metrics of the i-th smallest class of that union.
C5_VectorsIndexedByClassUniverse ==
    LET all == SortedSeq(Universe) IN
    /\ Returned =>
          /\ classes = all
          /\ Len(iou_per_class) = Len(all)
          /\ Len(accuracy_per_class) = Len(all)
          /\ Len(precision_per_class) = Len(all)
          /\ Len(recall_per_class) = Len(all)
    /\ pc = "logged" =>
          /\ \A r \in logged :
                r.name \in {"IoU", "Acc", "Precision", "Recall"}
                    => r.idx \in 0 .. Len(all) - 1
          /\ \A j \in DOMAIN all :
                /\ LoggedAs("IoU", j - 1) =
                      {[name |-> "IoU", idx |-> j - 1, value |-> IouOf(all[j])]}
                /\ LoggedAs("Acc", j - 1) =
                      {[name |-> "Acc", idx |-> j - 1, value |-> AccOf(all[j])]}
                /\ LoggedAs("Precision", j - 1) =
                      {[name |-> "Precision", idx |-> j - 1,
                        value |-> PrecisionOf(all[j])]}
                /\ LoggedAs("Recall", j - 1) =
                      {[name |-> "Recall", idx |-> j - 1,
                        value |-> RecallOf(all[j])]}

\* Two classes logged, class 1 present in the prediction only.
C5_Witness ==
    /\ pc = "logged"
    /\ classes = <<0, 1>>
    /\ GtCount(1) = 0
    /\ LoggedAs("IoU", 1) # {} /\ LoggedAs("Recall", 1) # {}

\* ------------------------------------------------------------------ C6
SeqSum(s) == FracSum([j \in DOMAIN s |-> <<s[j], 1>>])[1]

\* C6: the overall accuracy is the one global quotient (non-ignored pixels
\* with prediction = ground truth) / (non-ignored pixels), which is also
\* (sum over the classes of TP) / (non-ignored pixels); it is 3/4 for
\* gt=[[0,0],[1,1]], pred=[[0,1],[1,1]].
C6_OverallAccuracyIsGlobalRatio ==
    Returned =>
        /\ overall_accuracy = Ratio(CorrectCount, Cardinality(Kept))
        /\ overall_accuracy = Ratio(SeqSum(true_positive), Cardinality(Kept))
        /\ (labels = <<0, 0, 1, 1>> /\ Pred = <<0, 1, 1, 1>>)
              => overall_accuracy = <<3, 4>>

\* A call whose overall accuracy differs from the mean per-class accuracy.
C6_Witness ==
    /\ Returned
    /\ Kept # {}
    /\ overall_accuracy # MeanOf(accuracy_per_class)

\* ------------------------------------------------------------------ C7
\* C7: no per-class division is evaluated with denominator 0; a class with
\* no ground-truth pixel has accuracy 0, a class with TP+FP = 0 has
\* precision 0, a class with TP+FN = 0 has recall 0, and every per-class
\* value is a number.
C7_NoZeroDenominator ==
    /\ 0 \notin denominators
    /\ \A j \in 1 .. done_classes :
          /\ IsNumber(iou_per_class[j])
          /\ IsNumber(accuracy_per_class[j])
          /\ IsNumber(precision_per_class[j])
          /\ IsNumber(recall_per_class[j])
          /\ GtCount(classes[j]) = 0 => accuracy_per_class[j] = Zero
          /\ TPCount(classes[j]) + FPCount(classes[j]) = 0
                => precision_per_class[j] = Zero
          /\ TPCount(classes[j]) + FNCount(classes[j]) = 0
                => recall_per_class[j] = Zero

\* Both zero cases in one call: class 0 never predicted, class 1 never true.
C7_Witness ==
    /\ Returned
    /\ \E j \in DOMAIN classes :
          GtCount(classes[j]) = 0 /\ accuracy_per_class[j] = Zero
          /\ recall_per_class[j] = Zero
    /\ \E j \in DOMAIN classes :
          TPCount(classes[j]) + FPCount(classes[j]) = 0
          /\ precision_per_class[j] = Zero

\* ------------------------------------------------------------------ C8
AllOnes(s) == \A j \in DOMAIN s : s[j] = One
AllZeros(s) == \A j \in DOMAIN s : s[j] = 0
PerfectReport ==
    /\ AllZeros(false_positive) /\ AllZeros(false_negative)
    /\ AllOnes(iou_per_class) /\ AllOnes(accuracy_per_class)
    /\ AllOnes(precision_per_class) /\ AllOnes(recall_per_class)
    /\ mean_iou = One
    /\ overall_accuracy = One
PerfectInput == Pred = labels /\ Kept = DOMAIN labels

\* C8 (as claimed): prediction = ground truth at every pixel and no pixel
\* ignored gives FP = FN = 0, IoU = accuracy = precision = recall = 1 for
\* every class, mean IoU 1 and overall accuracy 1.
C8_PerfectPredictionAllOnes ==
    (Returned /\ PerfectInput) => PerfectReport

\* C8 (amended): the same, for masks of at least one pixel.
C8_PerfectNonEmptyPredictionAllOnes ==
    (Returned /\ PerfectInput /\ labels # <<>>) => PerfectReport

\* A perfect prediction over both classes.
C8_Witness ==
    /\ Returned /\ PerfectInput
    /\ classes = <<0, 1>>
    /\ mean_iou = One

\* ------------------------------------------------- sliding_inference mode
MetricsIdle ==
    /\ logits = <<>> /\ labels = <<>> /\ pc = "idle" /\ MetricLocalsInit

RawValues == {no_data_value, 1}
Tiles == [1 .. Channels -> [1 .. TilePixels -> RawValues]]
\* Values sliding_window_inference returns: class-1 probabilities (finite).
PredValues == {Zero, One}

\* Variant: np.all in place of np.any.
NanMaskAll(tile) ==
    [p \in 1 .. TilePixels |->
        IF \A c \in DOMAIN tile : tile[c][p] = no_data_value THEN 1 ELSE 0]
\* Lines 505-506: nan_mask = np.any(hls_tile == no_data_value, axis=0).astype(int)
NanMask(tile) ==
    [p \in 1 .. TilePixels |->
        IF \E c \in DOMAIN tile : tile[c][p] = no_data_value THEN 1 ELSE 0]

\* process_and_augment(..., augment=False): (x - mean) / std per channel.
ProcessAndAugment(tile) ==
    [c \in DOMAIN tile |-> [p \in DOMAIN tile[c] |-> tile[c][p] - mean]]

\* Line 523: np.where(nan_mask == 1, np.nan, prediction)
NpWhereNan(mask, pred) ==
    [p \in DOMAIN pred |-> IF mask[p] = 1 THEN NaN ELSE pred[p]]

\* Line 524: f"{key}_prediction.tif"
PredictionFilename(key) == <<key, "_prediction.tif">>

InitInfer ==
    /\ MetricsIdle
    /\ hls_dataset \in {[i \in 1 .. n |-> i] : n \in 0 .. MaxTiles}
    /\ idx = 0 /\ ipc = "for"
    /\ hls_tile = Unset /\ raw_tile = Unset /\ nan_mask = Unset
    /\ prediction = Unset /\ returned = Unset
    /\ written = <<>> /\ dst_data = Unset /\ raised = {} /\ events = <<>>
    /\ status = "running"

Running(at) == status = "running" /\ ipc = at

\* Lines 489-491: the for statement takes the next item, or the loop ends.
ForNext ==
    /\ Running("for")
    /\ UNCHANGED events
    /\ idx < Len(hls_dataset)
    /\ idx' = idx + 1
    /\ ipc' = "read"
    /\ UNCHANGED <<hls_dataset, hls_tile, raw_tile, nan_mask, prediction,
                   returned, written, dst_data, raised, status>>
    /\ UNCHANGED metricVars

ForEnd ==
    /\ Running("for")
    /\ UNCHANGED events
    /\ idx = Len(hls_dataset)
    /\ status' = "finished"
    /\ UNCHANGED <<hls_dataset, idx, ipc, hls_tile, raw_tile, nan_mask,
                   prediction, returned, written, dst_data, raised>>
    /\ UNCHANGED metricVars

\* Lines 492-502: process_data returns the tile.
ReadTile ==
    /\ Running("read")
    /\ events' = Append(events, <<"read", hls_dataset[idx]>>)
    /\ \E t \in Tiles : hls_tile' = t /\ raw_tile' = t
    /\ ipc' = "mask"
    /\ UNCHANGED <<hls_dataset, idx, nan_mask, prediction, returned, written,
                   dst_data, raised, status>>
    /\ UNCHANGED metricVars

\* Variant: a read failure that ends the run.
ReadFailsAborts ==
    /\ Running("read")
    /\ events' = Append(events, <<"skip", hls_dataset[idx]>>)
    /\ status' = "aborted"
    /\ UNCHANGED <<hls_dataset, idx, ipc, hls_tile, raw_tile, nan_mask,
                   prediction, returned, written, dst_data, raised>>
    /\ UNCHANGED metricVars

\* Lines 503-504: process_data raises RasterioIOError; continue.
ReadFails ==
    /\ Running("read")
    /\ events' = Append(events, <<"skip", hls_dataset[idx]>>)
    /\ ipc' = "for"
    /\ UNCHANGED <<hls_dataset, idx, hls_tile, raw_tile, nan_mask, prediction,
                   returned, written, dst_data, raised, status>>
    /\ UNCHANGED metricVars

\* Lines 505-506.
ComputeNanMask ==
    /\ Running("mask")
    /\ UNCHANGED events
    /\ nan_mask' = NanMask(hls_tile)
    /\ ipc' = "normalise"
    /\ UNCHANGED <<hls_dataset, idx, hls_tile, raw_tile, prediction, returned,
                   written, dst_data, raised, status>>
    /\ UNCHANGED metricVars

\* Lines 507-514.
Normalise ==
    /\ Running("normalise")
    /\ UNCHANGED events
    /\ hls_tile' = ProcessAndAugment(hls_tile)
    /\ ipc' = "infer"
    /\ UNCHANGED <<hls_dataset, idx, raw_tile, nan_mask, prediction, returned,
                   written, dst_data, raised, status>>
    /\ UNCHANGED metricVars

\* Lines 515-522: sliding_window_inference returns a surface.
Infer ==
    /\ Running("infer")
    /\ events' = Append(events, <<"infer", hls_dataset[idx]>>)
    /\ \E r \in [1 .. TilePixels -> PredValues] :
          prediction' = r /\ returned' = r
    /\ ipc' = "where"
    /\ UNCHANGED <<hls_dataset, idx, hls_tile, raw_tile, nan_mask, written,
                   dst_data, raised, status>>
    /\ UNCHANGED metricVars

\* Variant: a loop that treated an inference failure like a read failure (continue).
InferRaisesSkipsTile ==
    /\ Running("infer")
    /\ UNCHANGED events
    /\ raised' = raised \cup {hls_dataset[idx]}
    /\ ipc' = "for"
    /\ UNCHANGED <<hls_dataset, idx, hls_tile, raw_tile, nan_mask, prediction,
                   returned, written, dst_data, status>>
    /\ UNCHANGED metricVars

\* Lines 515-522: sliding_window_inference raises; nothing in main catches it.
InferRaises ==
    /\ Running("infer")
    /\ UNCHANGED events
    /\ raised' = raised \cup {hls_dataset[idx]}
    /\ status' = "aborted"
    /\ UNCHANGED <<hls_dataset, idx, ipc, hls_tile, raw_tile, nan_mask,
                   prediction, returned, written, dst_data>>
    /\ UNCHANGED metricVars

\* Line 523.
MaskPrediction ==
    /\ Running("where")
    /\ UNCHANGED events
    /\ prediction' = NpWhereNan(nan_mask, prediction)
    /\ ipc' = "write"
    /\ UNCHANGED <<hls_dataset, idx, hls_tile, raw_tile, nan_mask, returned,
                   written, dst_data, raised, status>>
    /\ UNCHANGED metricVars

\* Lines 524-539: open <key>_prediction.tif for writing and write band 1.
WritePrediction ==
    /\ Running("write")
    /\ events' = Append(events, <<"write", hls_dataset[idx]>>)
    /\ written' = Append(written, PredictionFilename(hls_dataset[idx]))
    /\ dst_data' = prediction
    /\ ipc' = "for"
    /\ UNCHANGED <<hls_dataset, idx, hls_tile, raw_tile, nan_mask, prediction,
                   returned, raised, status>>
    /\ UNCHANGED metricVars

NextInfer ==
    \/ ForNext \/ ForEnd \/ ReadTile \/ ReadFails \/ ComputeNanMask
    \/ Normalise \/ Infer \/ InferRaises \/ MaskPrediction \/ WritePrediction

SpecInfer == InitInfer /\ [][NextInfer]_vars

\* ------------------------------------------------------------------ C9
\* C9: when sliding_window_inference raises for a tile the run aborts there:
\* the exception is not caught (the run is aborted, stopped at the call),
\* the call returned no surface for that tile, and no prediction file of
\* that tile was opened or written; the files and the data written before
\* stay as they were.
C9_InferenceFailureAborts ==
    /\ [](raised # {} =>
            /\ status = "aborted"
            /\ ipc = "infer"
            /\ raised = {hls_dataset[idx]}
            /\ \A k \in raised : PredictionFilename(k) \notin Range(written))
    /\ [][status = "aborted" => UNCHANGED <<written, dst_data, prediction>>]_vars

\* The second tile's inference raised after the first tile was written.
C9_Witness ==
    /\ raised = {2}
    /\ status = "aborted"
    /\ written = <<PredictionFilename(1)>>

\* ----------------------------------------------------------------- C10
\* The tile whose prediction file was written last is the current one.
JustWritten ==
    /\ ipc = "for" /\ idx > 0 /\ written # <<>>
    /\ written[Len(written)] = PredictionFilename(hls_dataset[idx])

\* C10: a pixel of the written prediction is NaN exactly when some channel
\* of the tile as read (before normalisation) equals no_data_value there,
\* and every other pixel holds the value sliding_window_inference returned.
C10_NanMaskFromRawTile ==
    JustWritten =>
        \A p \in 1 .. TilePixels :
            /\ dst_data[p] = NaN
                  <=> \E c \in 1 .. Channels : raw_tile[c][p] = no_data_value
            /\ dst_data[p] # NaN => dst_data[p] = returned[p]

\* One pixel with no-data in a single channel, one valid pixel whose values
\* normalise to no_data_value.
C10_Witness ==
    /\ JustWritten
    /\ \E p, q \in 1 .. TilePixels :
          /\ raw_tile[1][p] = no_data_value /\ raw_tile[2][p] # no_data_value
          /\ dst_data[p] = NaN
          /\ \A c \in 1 .. Channels :
                raw_tile[c][q] # no_data_value /\ hls_tile[c][q] = no_data_value
          /\ dst_data[q] = returned[q]

\* ----------------------------------------------------------------- C11
IsAttempt(e) == e[1] \in {"read", "skip"}
IsWrite(e) == e[1] = "write"
\* The keys of the events satisfying Test, in order.
KeysOf(Test(_)) ==
    LET sel == SelectSeq(events, Test) IN [j \in DOMAIN sel |-> sel[j][2]]
LastEvent == events[Len(events)]

\* The tiles are taken one at a time in the order of the input JSON.
InJsonOrder ==
    LET att == KeysOf(IsAttempt) IN
    /\ att = SubSeq(hls_dataset, 1, Len(att))
    /\ Len(att) = IF ipc = "read" THEN idx - 1 ELSE idx

\* read, infer, write of one tile follow each other with nothing between,
\* and a pending step belongs to the current tile.
OneTileAtATime ==
    \A i \in DOMAIN events :
        LET k == events[i][2]
            what == events[i][1]
            last == i = Len(events)
        IN /\ what = "read" =>
                 /\ ~last => events[i + 1] = <<"infer", k>>
                 /\ last => k = hls_dataset[idx]
                            /\ ipc \in {"mask", "normalise", "infer"}
           /\ what = "infer" =>
                 /\ i > 1 /\ events[i - 1] = <<"read", k>>
                 /\ ~last => events[i + 1] = <<"write", k>>
                 /\ last => k = hls_dataset[idx] /\ status = "running"
                            /\ ipc \in {"where", "write"}
           /\ what = "write" => i > 1 /\ events[i - 1] = <<"infer", k>>
           /\ what = "skip" =>
                 /\ PredictionFilename(k) \notin Range(written)
                 /\ k \notin raised
                 /\ \A j \in DOMAIN events : events[j][2] = k => j = i

\* One file per written tile, named <key>_prediction.tif, in tile order.
OneFilePerWrittenTile ==
    LET w == KeysOf(IsWrite) IN
    /\ written = [j \in DOMAIN w |-> PredictionFilename(w[j])]
    /\ \A i, j \in DOMAIN written : written[i] = written[j] => i = j

\* A failed read never ends the run, and a finished run tried every tile.
LaterTilesProcessed ==
    /\ status = "aborted" => raised # {}
    /\ status = "finished" =>
          /\ KeysOf(IsAttempt) = hls_dataset
          /\ events # <<>> => LastEvent[1] \in {"skip", "write"}

\* The step that skips a tile leaves the files, the locals and the loop as
\* they were, so the loop goes on with the next item.
SkipStep ==
    (events' # events /\ events'[Len(events')][1] = "skip") =>
        /\ UNCHANGED <<written, dst_data, raised, status, idx, hls_tile,
                       nan_mask, prediction>>
        /\ ipc' = "for"

\* C11: the tiles are processed one at a time in the order of the input
\* JSON; a tile whose read raises RasterioIOError is skipped, with no output
\* file and no record of its key, and the later tiles are still processed;
\* every tile read and inferred writes exactly one file <key>_prediction.tif,
\* after its inference and before the next tile is read.
C11_TileLoopOrder ==
    /\ [](InJsonOrder /\ OneTileAtATime /\ OneFilePerWrittenTile
          /\ LaterTilesProcessed)
    /\ [][SkipStep]_vars

\* The first tile's read failed and the second tile was read, inferred and
\* written before the loop ended.
C11_Witness ==
    /\ status = "finished"
    /\ events = <<<<"skip", 1>>, <<"read", 2>>, <<"infer", 2>>, <<"write", 2>>>>
    /\ written = <<PredictionFilename(2)>>

====
